---- MODULE Spec2Model ----
(***************************************************************************)
(* Model of fastlane_bot/tools/invariants/functions.py: the frozen         *)
(* Function dataclasses (construction, params, update, p_func/pp_func,     *)
(* numeric derivatives), FunctionVector (kernel-checked combination,       *)
(* pointwise evaluation) and the optimizers goalseek, minimize1, minimize. *)
(*                                                                         *)
(* Numbers.  Python floats are modelled as exact rationals [n, d] in       *)
(* lowest terms with d > 0, so that structural equality is numeric         *)
(* equality.  The step sizes, tolerances and iteration caps of the source  *)
(* (1e-6, 1e-10, 1000, ...) are far outside what 32-bit exact arithmetic   *)
(* can iterate on, so each is given a model-scale value; every such        *)
(* definition says which value the source sets.                            *)
(***************************************************************************)
EXTENDS Integers, Sequences, FiniteSets, TLC

VARIABLES
    pc,             \* position of the call being executed
    args,           \* the caller's arguments of that call, as passed
    x0,             \* local x0 (minimize rebinds it, line 599)
    learning_rate,  \* local learning_rate after defaulting
    iterations,     \* local iterations after defaulting
    tolerance,      \* local tolerance after defaulting
    deriv_h,        \* local deriv_h after defaulting (goalseek: h)
    x,              \* the optimization state
    path,           \* minimize: the path trace
    dfdx,           \* minimize: the last computed gradient
    norm2_dfdx,     \* minimize: squared norm of dfdx
    iteration,      \* loop iterations executed so far
    calls,          \* how func has been invoked so far
    result,         \* outcome of the call (return value or exception)
    prev,           \* outcome of the preceding call with the same arguments
    heap,           \* Function instances constructed so far (index = identity)
    last            \* outcome of the last operation on the heap

vars == <<pc, args, x0, learning_rate, iterations, tolerance, deriv_h, x, path,
          dfdx, norm2_dfdx, iteration, calls, result, prev, heap, last>>

optVars == <<args, x0, learning_rate, iterations, tolerance, deriv_h, x, path,
             dfdx, norm2_dfdx, iteration, calls, result, prev>>

(***************************************************************************)
(* Exact rational arithmetic (the model of float arithmetic).              *)
(***************************************************************************)
AbsInt(i) == IF i < 0 THEN -i ELSE i

RECURSIVE Gcd(_, _)
Gcd(a, b) == IF b = 0 THEN a ELSE Gcd(b, a % b)

Q(n, d) ==
    LET s == IF d < 0 THEN -1 ELSE 1
        g == Gcd(AbsInt(n), AbsInt(d))
    IN  [n |-> (s * n) \div g, d |-> (s * d) \div g]

Zero == Q(0, 1)
One == Q(1, 1)
Two == Q(2, 1)

Neg(a) == [n |-> -a.n, d |-> a.d]

\* the operands are evaluated first (bound as values), then combined
Add(a_, b_) ==
    CHOOSE r \in {LET g == Gcd(a.d, b.d)
                  IN  Q(a.n * (b.d \div g) + b.n * (a.d \div g), (a.d \div g) * b.d) :
                  a \in {a_}, b \in {b_}} : TRUE

Sub(a, b) == Add(a, Neg(b))

Mul(a_, b_) ==
    CHOOSE r \in {LET g1 == Gcd(AbsInt(a.n), b.d)
                      g2 == Gcd(AbsInt(b.n), a.d)
                  IN  Q((a.n \div g1) * (b.n \div g2), (a.d \div g2) * (b.d \div g1)) :
                  a \in {a_}, b \in {b_}} : TRUE

\* a / b for b # 0 (the callers raise ZeroDivisionError themselves when b = 0)
Div(a, b) == Mul(a, Q(b.d, b.n))

Lt(a, b) == Sub(a, b).n < 0
Gt(a, b) == Lt(b, a)
Abs(a) == [n |-> AbsInt(a.n), d |-> a.d]
IsZero(a) == a.n = 0

(***************************************************************************)
(* Python values: None, int, float, a Function instance, a dict.           *)
(***************************************************************************)
NoneV == [t |-> "None"]
IntV(i) == [t |-> "int", q |-> Q(i, 1)]
FloatV(q) == [t |-> "float", q |-> q]
Obj(cls, fields) == [t |-> "obj", cls |-> cls, fields |-> fields]
Dict(items) == [t |-> "dict", items |-> items]

IsNone(v) == v.t = "None"
IsNumber(v) == v.t \in {"int", "float"}
\* isinstance(v, Function): every instance of the model is of a Function variant
IsFunction(v) == v.t = "obj"

\* float(v) on a number
float(v) == FloatV(v.q)

\* {**a, **b} on dicts given as TLA+ functions over their keys
Merge(a, b) ==
    [k \in (DOMAIN a) \cup (DOMAIN b) |-> IF k \in DOMAIN b THEN b[k] ELSE a[k]]

Empty == [k \in {} |-> NoneV]

Returned(v) == [ok |-> TRUE, exc |-> "", val |-> v]
Raised(e) == [ok |-> FALSE, exc |-> e, val |-> NoneV]

(***************************************************************************)
(* The Function variants: declared dataclass fields and their defaults.    *)
(***************************************************************************)
Concrete == {"QuadraticFunction", "TrigFunction", "HyperbolaFunction"}
Combinators == {"PriceFunction", "Price2Function"}
Variants == Concrete \cup Combinators

Declared(cls) ==
    CASE cls = "QuadraticFunction" -> {"a", "b", "c"}
      [] cls = "TrigFunction"      -> {"amp", "omega", "phase"}
      [] cls = "HyperbolaFunction" -> {"k", "x0", "y0"}
      [] cls = "PriceFunction"     -> {"func", "precision"}
      [] cls = "Price2Function"    -> {"func", "precision"}

\* the fields that have a default, with it; func has none
Defaults(cls) ==
    CASE cls = "QuadraticFunction" -> [a |-> IntV(0), b |-> IntV(0), c |-> IntV(0)]
      [] cls = "TrigFunction"      -> [amp |-> IntV(1), omega |-> IntV(1), phase |-> IntV(0)]
      [] cls = "HyperbolaFunction" -> [k |-> IntV(1), x0 |-> IntV(0), y0 |-> IntV(0)]
      [] cls = "PriceFunction"     -> [precision |-> NoneV]
      [] cls = "Price2Function"    -> [precision |-> NoneV]

\* object.__setattr__ as a frozen dataclass overrides it: every assignment to
\* a field of a constructed instance raises, whatever the value
frozen_setattr(obj, name, value) == Raised("FrozenInstanceError")

\* PriceFunction.__post_init__ / Price2Function.__post_init__ on the instance
\* whose fields the generated __init__ has just set
post_init(cls, fields) ==
    IF cls \notin Combinators THEN Returned(Obj(cls, fields))
    ELSE IF ~IsFunction(fields.func) THEN Raised("AssertionError")
    ELSE IF ~IsNone(fields.precision)
         THEN frozen_setattr(Obj(cls, fields), "precision", float(fields.precision))
    ELSE Returned(Obj(cls, fields))

\* cls(**kwargs): the dataclass-generated __init__, then __post_init__
Construct(cls, kwargs) ==
    IF \E k \in DOMAIN kwargs : k \notin Declared(cls) THEN Raised("TypeError")
    ELSE IF \E k \in Declared(cls) : k \notin (DOMAIN kwargs) \cup (DOMAIN Defaults(cls))
         THEN Raised("TypeError")
    ELSE post_init(cls, Merge(Defaults(cls), kwargs))

\* dataclasses.asdict: nested dataclass instances are converted to dicts too
RECURSIVE asdict(_)
asdict(F) ==
    Dict([k \in DOMAIN F.fields |->
            IF F.fields[k].t = "obj" THEN asdict(F.fields[k]) ELSE F.fields[k]])

\* Function.params
params(F) == asdict(F)

\* Function.update: params = {**self.params(), **kwargs}; self.__class__(**params)
update(F, kwargs) == Construct(F.cls, Merge(params(F).items, kwargs))

\* Function.p_func / Function.pp_func
p_func(F, precision) == Construct("PriceFunction", [func |-> F, precision |-> precision])
pp_func(F, precision) == Construct("Price2Function", [func |-> F, precision |-> precision])

(***************************************************************************)
(* Function: evaluation and numeric derivatives.  TrigFunction needs sin   *)
(* and is not evaluated in the model; it takes part in construction,       *)
(* params and update only.                                                 *)
(***************************************************************************)
\* model-scale: the source sets DERIV_H = 1e-6 and DERIV_ETA = 1e-4
DERIV_H == Q(1, 10)
DERIV_ETA == Q(1, 10)
DERIV_IS_ABS == FALSE

\* self.DERIV_IS_ABS: the class attribute, which a subclass may set.
\* AbsQuadraticFunction is QuadraticFunction with DERIV_IS_ABS = True
deriv_is_abs(F) == IF F.cls = "AbsQuadraticFunction" THEN TRUE ELSE DERIV_IS_ABS

\* the test "v is not None"
is_not_none(v) == ~IsNone(v)

\* Python truth value of None or a number
Truthy(v) == IF IsNone(v) THEN FALSE ELSE ~IsZero(v.q)

\* the step df_dx_abs / d2f_dx2_abs use: h defaults to DERIV_H, and is
\* multiplied by precision when precision is truthy
step_abs(h, precision) ==
    LET h1 == IF IsNone(h) THEN DERIV_H ELSE h.q
    IN  IF Truthy(precision) THEN Mul(h1, precision.q) ELSE h1

\* the h that df_dx_rel / d2f_dx2_rel pass on: x*eta if x else None
step_rel(x_, eta) ==
    LET eta1 == IF IsNone(eta) THEN DERIV_ETA ELSE eta.q
    IN  IF ~IsZero(x_) THEN FloatV(Mul(x_, eta1)) ELSE NoneV

RECURSIVE f(_, _)
RECURSIVE Dom(_, _)

df_dx_abs(F, x_, h, precision) ==
    LET hh == step_abs(h, precision)
    IN  Div(Sub(f(F, Add(x_, hh)), f(F, Sub(x_, hh))), Mul(Two, hh))

d2f_dx2_abs(F, x_, h, precision) ==
    LET hh == step_abs(h, precision)
    IN  Div(Sub(Add(f(F, Add(x_, hh)), f(F, Sub(x_, hh))), Mul(Two, f(F, x_))),
            Mul(hh, hh))

df_dx_rel(F, x_, eta, precision) == df_dx_abs(F, x_, step_rel(x_, eta), precision)

d2f_dx2_rel(F, x_, eta, precision) == d2f_dx2_abs(F, x_, step_rel(x_, eta), precision)

\* Function.p, as the base class defines it
Function_p(F, x_, precision) ==
    IF deriv_is_abs(F) THEN Neg(df_dx_abs(F, x_, NoneV, precision))
    ELSE Neg(df_dx_rel(F, x_, NoneV, precision))

\* F.p: a subclass may override p analytically and then ignores precision.
\* CubicFunction(a), f(x) = a*x^3, is such a subclass: p(x) = -3*a*x^2
p(F, x_, precision) ==
    IF F.cls = "CubicFunction"
    THEN Neg(Mul(Q(3, 1), Mul(F.fields.a.q, Mul(x_, x_))))
    ELSE Function_p(F, x_, precision)

\* a df_dx that differentiates numerically instead of calling p
df_dx_numeric(F, x_, precision) == df_dx_rel(F, x_, NoneV, precision)

\* Function.df_dx
df_dx(F, x_, precision) == Neg(p(F, x_, precision))

\* Function.pp
pp(F, x_, precision) ==
    IF deriv_is_abs(F) THEN Neg(d2f_dx2_abs(F, x_, NoneV, precision))
    ELSE Neg(d2f_dx2_rel(F, x_, NoneV, precision))

\* the f of each variant
f(F, x_) ==
    CASE F.cls \in {"QuadraticFunction", "AbsQuadraticFunction"} ->
            Add(Add(Mul(F.fields.a.q, Mul(x_, x_)), Mul(F.fields.b.q, x_)), F.fields.c.q)
      [] F.cls = "HyperbolaFunction" ->
            Add(F.fields.y0.q, Div(F.fields.k.q, Sub(x_, F.fields.x0.q)))
      [] F.cls = "PriceFunction" -> p(F.fields.func, x_, F.fields.precision)
      [] F.cls = "Price2Function" -> pp(F.fields.func, x_, F.fields.precision)
      [] F.cls = "CubicFunction" -> Mul(F.fields.a.q, Mul(x_, Mul(x_, x_)))

\* the points at which p(x) / pp(x) evaluate f
p_points(F, x_, precision) ==
    LET hh == IF deriv_is_abs(F) THEN step_abs(NoneV, precision)
              ELSE step_abs(step_rel(x_, NoneV), precision)
    IN  {Add(x_, hh), Sub(x_, hh)}

\* whether f(F, x) evaluates without a ZeroDivisionError
Dom(F, x_) ==
    CASE F.cls \in {"QuadraticFunction", "AbsQuadraticFunction"} -> TRUE
      [] F.cls = "HyperbolaFunction" -> x_ # F.fields.x0.q
      [] F.cls = "PriceFunction" ->
            \A y \in p_points(F.fields.func, x_, F.fields.precision) : Dom(F.fields.func, y)
      [] F.cls = "Price2Function" ->
            \A y \in p_points(F.fields.func, x_, F.fields.precision) \cup {x_} : Dom(F.fields.func, y)
      [] F.cls = "TrigFunction" -> FALSE
      [] F.cls = "CubicFunction" -> TRUE

(***************************************************************************)
(* Operations on Function instances.  heap[i] is the i-th instance         *)
(* constructed; the index stands for the object's identity.                *)
(***************************************************************************)
MaxObjs == 2

Idle == NoneV

NoCall ==
    /\ args = Idle /\ x0 = Idle /\ learning_rate = Idle /\ iterations = Idle
    /\ tolerance = Idle /\ deriv_h = Idle /\ x = Idle /\ path = Idle
    /\ dfdx = Idle /\ norm2_dfdx = Idle /\ iteration = Idle /\ calls = Idle
    /\ result = Idle /\ prev = Idle

Op(op, self, kw, res, id) == [op |-> op, self |-> self, kw |-> kw, res |-> res, id |-> id]

InitFunction ==
    /\ pc = "objects"
    /\ heap = << >>
    /\ last = Op("none", 0, Empty, Returned(NoneV), 0)
    /\ NoCall

\* keyword arguments the callers pass to the constructors and to update
NewKwargs(cls) ==
    CASE cls = "QuadraticFunction" -> {Empty, [a |-> IntV(1), c |-> FloatV(Q(1, 2))]}
      [] cls = "TrigFunction"      -> {Empty}
      [] cls = "HyperbolaFunction" -> {[k |-> IntV(2)], [x0 |-> IntV(1), nope |-> IntV(1)]}

UpdateKwargs ==
    {Empty, [a |-> IntV(3)], [k |-> IntV(3), y0 |-> IntV(1)], [amp |-> IntV(2)],
     [precision |-> NoneV], [nope |-> IntV(1)]}

Precisions == {NoneV, IntV(2), FloatV(Q(1, 2))}

EvalPoints == {Zero, One, Q(3, 2)}

\* a buggy update that overwrites the receiver instead of building an instance
StoreInPlace(op, self, kw, res) ==
    IF res.ok /\ op = "update"
    THEN /\ heap' = [heap EXCEPT ![self] = res.val]
         /\ last' = Op(op, self, kw, res, self)
    ELSE IF res.ok
    THEN /\ Len(heap) < MaxObjs
         /\ heap' = Append(heap, res.val)
         /\ last' = Op(op, self, kw, res, Len(heap) + 1)
    ELSE /\ heap' = heap
         /\ last' = Op(op, self, kw, res, 0)

\* the outcome of an operation that constructs: the instance returned is a
\* new object, which joins the heap; nothing is stored when it raises
Store(op, self, kw, res) ==
    IF res.ok
    THEN /\ Len(heap) < MaxObjs
         /\ heap' = Append(heap, res.val)
         /\ last' = Op(op, self, kw, res, Len(heap) + 1)
    ELSE /\ heap' = heap
         /\ last' = Op(op, self, kw, res, 0)

\* cls(**kwargs) for a concrete variant
New ==
    /\ pc = "objects"
    /\ \E cls \in Concrete : \E kw \in NewKwargs(cls) :
          Store("new", 0, kw, Construct(cls, kw))
    /\ UNCHANGED <<pc, optVars>>

\* PriceFunction(func, precision=...) / Price2Function(...) called directly,
\* over an instance or over a value that is no Function
NewCombinator ==
    /\ pc = "objects"
    /\ \E cls \in Combinators : \E prec \in Precisions :
       \E fn \in {heap[i] : i \in 1..Len(heap)} \cup {IntV(1)} :
          LET kw == [func |-> fn, precision |-> prec]
          IN  Store("new", 0, kw, Construct(cls, kw))
    /\ UNCHANGED <<pc, optVars>>

\* heap[i].update(**kw)
Update ==
    /\ pc = "objects"
    /\ \E i \in 1..Len(heap) : \E kw \in UpdateKwargs :
          Store("update", i, kw, update(heap[i], kw))
    /\ UNCHANGED <<pc, optVars>>

\* heap[i].p_func(precision=prec) / heap[i].pp_func(precision=prec)
PFunc ==
    /\ pc = "objects"
    /\ \E i \in 1..Len(heap) : \E prec \in Precisions :
          \/ Store("p_func", i, [precision |-> prec], p_func(heap[i], prec))
          \/ Store("pp_func", i, [precision |-> prec], pp_func(heap[i], prec))
    /\ UNCHANGED <<pc, optVars>>

\* heap[i].params()
Params ==
    /\ pc = "objects"
    /\ \E i \in 1..Len(heap) :
          last' = Op("params", i, Empty, Returned(params(heap[i])), 0)
    /\ UNCHANGED <<pc, heap, optVars>>

\* how many combinators wrap the concrete function
RECURSIVE Nesting(_)
Nesting(F) == IF F.cls \in Combinators THEN 1 + Nesting(F.fields.func) ELSE 0

\* heap[i](x), heap[i].p(x), heap[i].df_dx(x), heap[i].pp(x); the exact
\* arithmetic of the model carries a derivative of a concrete function or the
\* value of a combinator over one, and no deeper nesting
Evaluate ==
    /\ pc = "objects"
    /\ \E i \in 1..Len(heap) : \E xv \in EvalPoints :
       \E meth \in {"f", "p", "df_dx", "pp"} :
          LET F == heap[i]
              pts == IF meth = "f" THEN {xv}
                     ELSE IF meth = "pp" THEN p_points(F, xv, NoneV) \cup {xv}
                     ELSE p_points(F, xv, NoneV)
              val == CASE meth = "f" -> f(F, xv)
                       [] meth = "p" -> p(F, xv, NoneV)
                       [] meth = "df_dx" -> df_dx(F, xv, NoneV)
                       [] meth = "pp" -> pp(F, xv, NoneV)
          IN  /\ F.cls # "TrigFunction"
              /\ Nesting(F) + (IF meth = "f" THEN 0 ELSE 1) <= 1
              /\ Nesting(F) = 1 => F.fields.func.cls # "TrigFunction"
              /\ last' = Op(meth, i, [x |-> FloatV(xv)],
                            IF \A y \in pts : Dom(F, y)
                            THEN Returned(FloatV(val))
                            ELSE Raised("ZeroDivisionError"), 0)
    /\ UNCHANGED <<pc, heap, optVars>>

NextFunction == New \/ NewCombinator \/ Update \/ PFunc \/ Params \/ Evaluate

SpecFunction == InitFunction /\ [][NextFunction]_vars

(***************************************************************************)
(* Claims about Function instances (checked under SpecFunction).           *)
(***************************************************************************)
IsUpdate == last.op = "update"
Receiver == heap[last.self]

\* C4 (as claimed): F.update() returns an object equal to F, and F.update(k=v)
\* returns an object whose parameter k is v and whose other parameters are
\* those of F, for every variant, the combinators included.
C4_UpdateReturnsEqualOrOverridden ==
    (IsUpdate /\ DOMAIN last.kw \subseteq Declared(Receiver.cls)) =>
        /\ last.res.ok
        /\ last.res.val.cls = Receiver.cls
        /\ \A k \in Declared(Receiver.cls) :
              last.res.val.fields[k] =
                 IF k \in DOMAIN last.kw THEN last.kw[k] ELSE Receiver.fields[k]

\* C5 (as claimed): constructing a PriceFunction or Price2Function over a
\* Function succeeds; a precision that is not None is stored converted to a
\* float, and a precision of None stays None.
IsCombinatorCall ==
    \/ last.op \in {"p_func", "pp_func"}
    \/ last.op = "new" /\ "func" \in DOMAIN last.kw /\ IsFunction(last.kw.func)

C5_PrecisionCoercedToFloat ==
    IsCombinatorCall =>
        /\ last.res.ok
        /\ last.res.val.fields.precision =
              IF IsNone(last.kw.precision) THEN NoneV ELSE float(last.kw.precision)

\* C6: no operation changes the parameters of an instance that exists: every
\* instance on the heap is the same after the step; an update that returns
\* returns a new instance, distinct from its receiver, which is left as it
\* was; an update naming a parameter the variant does not declare raises.
C6_step ==
    /\ \A i \in 1..Len(heap) : Len(heap') >= i /\ heap'[i] = heap[i]
    /\ last'.op = "update" =>
          /\ last'.res.ok =>
                /\ last'.id = Len(heap) + 1
                /\ last'.id # last'.self
                /\ heap'[last'.id] = last'.res.val
          /\ (\E k \in DOMAIN last'.kw : k \notin Declared(heap[last'.self].cls)) =>
                /\ ~last'.res.ok
                /\ heap' = heap

Kernel(x_min, x_max, kind) == [x_min |-> x_min, x_max |-> x_max, kind |-> kind]

FunctionVector(vec, kernel) == [vec |-> vec, kernel |-> kernel]

\* FunctionVector._kwargs without its assertion
kwargs_unchecked(self, other) == Returned([kernel |-> self.kernel])

\* FunctionVector._kwargs; other is a FunctionVector or None
_kwargs(self, other) ==
    IF other # NoneV /\ self.kernel # other.kernel THEN Raised("AssertionError")
    ELSE Returned([kernel |-> self.kernel])

\* an entry of the mapping: a Function and its coefficient
Item(F, v) == [fn |-> F, coef |-> v]

Keys(vec) == {vec[i].fn : i \in 1..Len(vec)}

\* vec[F], 0 when F is no key
Coef(vec, F) ==
    IF F \in Keys(vec) THEN vec[CHOOSE i \in 1..Len(vec) : vec[i].fn = F].coef ELSE Zero

RECURSIVE new_items(_, _, _)
new_items(self, other, sgn) ==
    IF other = << >> THEN << >>
    ELSE (IF Head(other).fn \in Keys(self) THEN << >>
          ELSE <<Item(Head(other).fn, Mul(sgn, Head(other).coef))>>)
         \o new_items(self, Tail(other), sgn)

\* the coefficient mapping of self + sgn * other
combined_vec(self, other, sgn) ==
    [i \in 1..Len(self.vec) |->
        Item(self.vec[i].fn,
             Add(self.vec[i].coef, Mul(sgn, Coef(other.vec, self.vec[i].fn))))]
    \o new_items(self.vec, other.vec, sgn)

\* self + other (sgn = 1), self - other (sgn = -1)
combine(self, other, sgn) ==
    LET kw == _kwargs(self, other)
    IN  IF ~kw.ok THEN Raised(kw.exc)
        ELSE Returned(FunctionVector(combined_vec(self, other, sgn), kw.val.kernel))

Quadratic(a_, b_, c_) ==
    Obj("QuadraticFunction", [a |-> FloatV(a_), b |-> FloatV(b_), c |-> FloatV(c_)])

Kernels == {Kernel(Zero, One, "flat"), Kernel(Zero, Two, "flat"),
            Kernel(Zero, One, "triangle")}

Mappings ==
    LET F1 == Quadratic(One, Zero, Zero)
        F2 == Quadratic(Zero, One, Q(-5, 1))
    IN  {<< >>, <<Item(F1, One)>>, <<Item(F2, Two)>>,
         <<Item(F1, Q(1, 2)), Item(F2, Q(-1, 1))>>}

Vectors == {FunctionVector(v, k) : v \in Mappings, k \in Kernels}

InitVector ==
    /\ pc = "vectors"
    /\ heap = << >>
    /\ last = Op("none", 0, Empty, Returned(NoneV), 0)
    /\ args = Idle /\ x0 = Idle /\ learning_rate = Idle /\ iterations = Idle
    /\ tolerance = Idle /\ deriv_h = Idle /\ x = Idle /\ path = Idle
    /\ dfdx = Idle /\ norm2_dfdx = Idle /\ iteration = Idle /\ calls = Idle
    /\ result = Idle /\ prev = Idle

\* v + w and v - w on two FunctionVectors
Combine ==
    /\ pc = "vectors"
    /\ \E v \in Vectors : \E w \in Vectors : \E sgn \in {One, Neg(One)} :
          /\ args' = [fn |-> "combine", self |-> v, other |-> w, sgn |-> sgn]
          /\ result' = combine(v, w, sgn)
    /\ UNCHANGED <<pc, heap, last, x0, learning_rate, iterations, tolerance,
                   deriv_h, x, path, dfdx, norm2_dfdx, iteration, calls, prev>>

NextVector == Combine

SpecVector == InitVector /\ [][NextVector]_vars

IsCombine == pc = "vectors" /\ args # Idle /\ args.fn = "combine"

\* C10: combining two FunctionVectors whose Kernels are unequal raises an
\* assertion error and returns no vector; when the Kernels are equal the
\* combination returns a vector that carries the shared Kernel.
C10_KernelMismatchFails ==
    IsCombine =>
        IF args.self.kernel # args.other.kernel
        THEN ~result.ok /\ result.exc = "AssertionError"
        ELSE result.ok /\ result.val.kernel = args.self.kernel
                       /\ result.val.kernel = args.other.kernel

\* two vectors with unequal Kernels have been combined, and the call raised
C10_Witness ==
    /\ IsCombine /\ args.self.kernel # args.other.kernel
    /\ args.self.vec # << >> /\ args.other.vec # << >>
    /\ ~result.ok

(***************************************************************************)
(* FunctionVector: pointwise evaluation.                                   *)
(***************************************************************************)
\* a sum of the components that leaves the coefficients out
RECURSIVE unweighted_sum(_, _, _)
unweighted_sum(vec, meth, x_) ==
    IF vec = << >> THEN Zero
    ELSE Add(unweighted_sum(SubSeq(vec, 1, Len(vec) - 1), meth, x_),
             IF meth = "f" THEN f(vec[Len(vec)].fn, x_)
             ELSE IF meth = "p" THEN p(vec[Len(vec)].fn, x_, NoneV)
             ELSE pp(vec[Len(vec)].fn, x_, NoneV))

\* sum([meth(x) * v for F, v in self.vec.items()]) for meth one of F.f, F.p, F.pp
RECURSIVE weighted_sum(_, _, _)
weighted_sum(vec, meth, x_) ==
    IF vec = << >> THEN Zero
    ELSE LET F == vec[Len(vec)].fn
             v == IF meth = "f" THEN f(F, x_)
                  ELSE IF meth = "p" THEN p(F, x_, NoneV)
                  ELSE pp(F, x_, NoneV)
         IN  Add(weighted_sum(SubSeq(vec, 1, Len(vec) - 1), meth, x_),
                 Mul(v, vec[Len(vec)].coef))

\* FunctionVector.f
vec_f(self, x_) == weighted_sum(self.vec, "f", x_)

\* FunctionVector.p
vec_p(self, x_) == weighted_sum(self.vec, "p", x_)

\* FunctionVector.df_dx
vec_df_dx(self, x_) == Neg(vec_p(self, x_))

(***************************************************************************)
(* FunctionVector.goalseek                                                 *)
(***************************************************************************)
\* model-scale: the source sets GS_TOLERANCE = 1e-6, GS_ITERATIONS = 1000,
\* GS_ETA = 1e-10, GS_H = 1e-6
GS_TOLERANCE == Q(1, 10)
GS_ITERATIONS == 2
GS_ETA == Q(1, 10)
GS_H == Q(1, 10)

NoLocals ==
    /\ x0 = Idle /\ learning_rate = Idle /\ iterations = Idle
    /\ tolerance = Idle /\ deriv_h = Idle /\ x = Idle /\ path = Idle
    /\ dfdx = Idle /\ norm2_dfdx = Idle /\ iteration = Idle /\ calls = Idle
    /\ result = Idle /\ prev = Idle

GoalseekVectors ==
    LET K == Kernel(Zero, One, "flat")
        Line == Quadratic(Zero, One, Q(-5, 1))
        Bowl == Quadratic(One, Zero, Q(3, 1))
        Cup == Quadratic(One, Zero, Q(-4, 1))
        Flat == Quadratic(Zero, Zero, One)
    IN  {FunctionVector(<<Item(Line, One)>>, K),
         FunctionVector(<<Item(Bowl, One)>>, K),
         FunctionVector(<<Item(Bowl, Q(1, 40))>>, K),
         FunctionVector(<<Item(Cup, One)>>, K),
         FunctionVector(<<Item(Flat, Q(3, 1)), Item(Line, Two)>>, K),
         FunctionVector(<< >>, K)}

GoalseekTargets == {Zero, One, Q(-1, 1)}
GoalseekStarts == {Zero, One, Q(-1, 1), Q(5, 2)}

InitGoalseek ==
    /\ pc = "goalseek"
    /\ heap = << >>
    /\ last = Op("none", 0, Empty, Returned(NoneV), 0)
    /\ args \in {[fn |-> "goalseek", self |-> v, target |-> t, x0 |-> s] :
                    v \in GoalseekVectors, t \in GoalseekTargets, s \in GoalseekStarts}
    /\ NoLocals

\* lines 506-510: the locals before the loop
GoalseekCall ==
    /\ pc = "goalseek"
    /\ x' = args.x0
    /\ iterations' = GS_ITERATIONS
    /\ tolerance' = GS_TOLERANCE
    /\ deriv_h' = IF ~IsZero(args.x0) THEN Mul(args.x0, GS_ETA) ELSE GS_H
    /\ iteration' = 0
    /\ pc' = "gs_loop"
    /\ UNCHANGED <<args, x0, learning_rate, path, dfdx, norm2_dfdx, calls,
                   result, prev, heap, last>>

\* the distance of func(x) from the target
gs_error(self, target, x_) == Abs(Sub(vec_f(self, x_), target))

\* a slope taken as the forward difference (func(x+h) - func(x)) / h
forward_slope(self, x_, h) ==
    Div(Sub(vec_f(self, Add(x_, h)), vec_f(self, x_)), h)

\* line 513: m = (func(x+h)-func(x-h)) / (2*h)
gs_slope(self, x_, h) ==
    Div(Sub(vec_f(self, Add(x_, h)), vec_f(self, Sub(x_, h))), Mul(Two, h))

\* lines 511-516: one iteration of the loop
GoalseekStep ==
    /\ pc = "gs_loop"
    /\ iteration < iterations
    /\ \E y \in {vec_f(args.self, x)} :
       \E m \in {gs_slope(args.self, x, deriv_h)} :
          IF IsZero(m)
          THEN /\ result' = Raised("ZeroDivisionError")
               /\ pc' = "done"
               /\ UNCHANGED <<x, iteration>>
          ELSE \E x1 \in {Add(x, Div(Sub(args.target, y), m))} :
               \E error \in {gs_error(args.self, args.target, x1)} :
                  /\ x' = x1
                  /\ iteration' = iteration + 1
                  /\ pc' = IF Lt(error, tolerance) \/ iteration + 1 = iterations
                           THEN "gs_final" ELSE "gs_loop"
                  /\ UNCHANGED result
    /\ UNCHANGED <<args, x0, learning_rate, iterations, tolerance, deriv_h, path,
                   dfdx, norm2_dfdx, calls, prev, heap, last>>

\* lines 517-519
goalseek_result(self, target, x_, tol) ==
    IF Gt(gs_error(self, target, x_), tol)
    THEN Raised("ValueError: gradient descent failed to converge")
    ELSE Returned(x_)

GoalseekFinish ==
    /\ pc = "gs_final"
    /\ result' = goalseek_result(args.self, args.target, x, tolerance)
    /\ pc' = "done"
    /\ UNCHANGED <<args, x0, learning_rate, iterations, tolerance, deriv_h, x,
                   path, dfdx, norm2_dfdx, iteration, calls, prev, heap, last>>

NextGoalseek == GoalseekCall \/ GoalseekStep \/ GoalseekFinish

SpecGoalseek == InitGoalseek /\ [][NextGoalseek]_vars

GoalseekDone == pc = "done" /\ args.fn = "goalseek"

\* C2 (as claimed): goalseek returns x only if |f(x) - target| is strictly
\* below GS_TOLERANCE; when the loop has run all its iterations and the last
\* iterate does not satisfy that bound (|f(x) - target| = GS_TOLERANCE
\* included) the call raises the convergence error.
C2_GoalseekReturnsOnlyBelowTolerance ==
    GoalseekDone =>
        /\ result.ok => Lt(gs_error(args.self, args.target, result.val), GS_TOLERANCE)
        /\ (iteration = GS_ITERATIONS
               /\ ~Lt(gs_error(args.self, args.target, x), GS_TOLERANCE))
              => (~result.ok /\ result.exc = "ValueError: gradient descent failed to converge")

\* the inputs on which the last iterate is exactly GS_TOLERANCE away: the
\* iterates of (x^2 + 3)/40 alternate between 1 and -1, where f = 1/10
C2_Boundary ==
    /\ GoalseekDone
    /\ iteration = GS_ITERATIONS
    /\ gs_error(args.self, args.target, x) = GS_TOLERANCE

(***************************************************************************)
(* FunctionVector.minimize1                                                *)
(***************************************************************************)
\* MM_LEARNING_RATE is the source's value; model-scale: the source sets
\* MM_ITERATIONS = 1000 and MM_TOLERANCE = 1e-3
MM_LEARNING_RATE == Q(1, 5)
MM_ITERATIONS == 3
MM_TOLERANCE == Q(1, 2)

Minimize1Vectors ==
    LET K == Kernel(Zero, One, "flat")
        Line == Quadratic(Zero, One, Q(-5, 1))
        Bowl == Quadratic(One, Zero, Q(3, 1))
        Cup == Quadratic(One, Q(-2, 1), Zero)
    IN  {FunctionVector(<<Item(Bowl, One)>>, K),
         FunctionVector(<<Item(Line, One)>>, K),
         FunctionVector(<<Item(Cup, Two), Item(Line, One)>>, K),
         FunctionVector(<< >>, K)}

Minimize1Starts == {Zero, One, Q(5, 2)}
Minimize1Rates == {NoneV, FloatV(Q(1, 2)), IntV(0)}
Minimize1Iterations == {NoneV, IntV(0), IntV(1), IntV(2)}
Minimize1Tolerances == {NoneV, IntV(0), IntV(2)}

InitMinimize1 ==
    /\ pc = "minimize1"
    /\ heap = << >>
    /\ last = Op("none", 0, Empty, Returned(NoneV), 0)
    /\ args \in {[fn |-> "minimize1", self |-> v, x0 |-> s, learning_rate |-> lr,
                  iterations |-> it, tolerance |-> tol] :
                    v \in Minimize1Vectors, s \in Minimize1Starts,
                    lr \in Minimize1Rates, it \in Minimize1Iterations,
                    tol \in Minimize1Tolerances}
    /\ NoLocals

\* lines 533-538: the defaults (is None for learning_rate and tolerance,
\* "or" for iterations) and the start
Minimize1Call ==
    /\ pc = "minimize1"
    /\ learning_rate' = IF IsNone(args.learning_rate) THEN MM_LEARNING_RATE
                        ELSE args.learning_rate.q
    /\ tolerance' = IF IsNone(args.tolerance) THEN MM_TOLERANCE ELSE args.tolerance.q
    /\ iterations' = IF Truthy(args.iterations) THEN args.iterations.q.n
                     ELSE MM_ITERATIONS
    /\ x' = args.x0
    /\ iteration' = 0
    /\ pc' = "m1_loop"
    /\ UNCHANGED <<args, x0, deriv_h, path, dfdx, norm2_dfdx, calls, result, prev,
                   heap, last>>

\* lines 539-542: one iteration of the loop
Minimize1Step ==
    /\ pc = "m1_loop"
    /\ iteration < iterations
    /\ \E x1 \in {Sub(x, Mul(learning_rate, vec_df_dx(args.self, x)))} :
       \E px \in {Abs(vec_p(args.self, x1))} :
          /\ x' = x1
          /\ iteration' = iteration + 1
          /\ pc' = IF Lt(px, tolerance) \/ iteration + 1 = iterations
                   THEN "m1_final" ELSE "m1_loop"
    /\ UNCHANGED <<args, x0, learning_rate, iterations, tolerance, deriv_h, path,
                   dfdx, norm2_dfdx, calls, result, prev, heap, last>>

\* a minimize1 that returns the last iterate whatever its gradient
minimize1_unchecked(self, x_, tol) == Returned(x_)

\* lines 543-545
minimize1_result(self, x_, tol) ==
    IF Lt(Abs(vec_p(self, x_)), tol)
    THEN Returned(x_)
    ELSE Raised("ValueError: gradient descent failed to converge")

Minimize1Finish ==
    /\ pc = "m1_final"
    /\ result' = minimize1_result(args.self, x, tolerance)
    /\ pc' = "done"
    /\ UNCHANGED <<args, x0, learning_rate, iterations, tolerance, deriv_h, x,
                   path, dfdx, norm2_dfdx, iteration, calls, prev, heap, last>>

NextMinimize1 == Minimize1Call \/ Minimize1Step \/ Minimize1Finish

SpecMinimize1 == InitMinimize1 /\ [][NextMinimize1]_vars

Minimize1Done == pc = "done" /\ args.fn = "minimize1"

\* C3: minimize1 returns x only when |p(x)| < tolerance at the returned x;
\* when the loop has made all its `iterations` updates and the bound is not
\* met at the last iterate (the loop stops at the first iterate that meets
\* it, so it was never met), the call raises the convergence error; and it
\* raises in no other case.
C3_Minimize1ReturnsOnlyBelowTolerance ==
    Minimize1Done =>
        /\ result.ok =>
              /\ result.val = x
              /\ Lt(Abs(vec_p(args.self, result.val)), tolerance)
        /\ (iteration = iterations /\ ~Lt(Abs(vec_p(args.self, x)), tolerance))
              => (~result.ok /\ result.exc = "ValueError: gradient descent failed to converge")
        /\ ~result.ok => iteration = iterations

\* iterations=1 from a start far from the minimum of x^2 + 3: the call raised
C3_Witness ==
    /\ Minimize1Done
    /\ args.iterations = IntV(1) /\ args.x0 = Q(5, 2)
    /\ IsNone(args.tolerance) /\ IsNone(args.learning_rate)
    /\ Len(args.self.vec) = 1 /\ args.self.vec[1].fn.fields.a.q = One
    /\ iteration = 1
    /\ ~result.ok

(***************************************************************************)
(* FunctionVector.minimize.  A list holds Python numbers, an array and a   *)
(* tuple made from an array hold floats, a dict maps names to Python       *)
(* numbers.                                                                *)
(***************************************************************************)
\* model-scale: the source sets MM_DERIV_H = 1e-6
MM_DERIV_H == Q(1, 10)

List(elems) == [t |-> "list", elems |-> elems]
NDArray(elems) == [t |-> "ndarray", elems |-> elems]
Tuple(elems) == [t |-> "tuple", elems |-> elems]

\* a callable lambda p1, ..., pn: sum((pi - ci)**2); every parameter is required
Func(params_, centers_) == [params |-> params_, centers |-> centers_]

\* len(signature(func).parameters)
arity(func) == Len(func.params)

RECURSIVE body_upto(_, _, _)
body_upto(func, xs, k) ==
    IF k = 0 THEN Zero
    ELSE Add(body_upto(func, xs, k - 1),
             Mul(Sub(xs[k], func.centers[k]), Sub(xs[k], func.centers[k])))

\* func(*xs) on floats
call_positional(func, xs) ==
    IF Len(xs) # arity(func) THEN Raised("TypeError")
    ELSE Returned(body_upto(func, xs, arity(func)))

\* func(**kw) on a dict of Python numbers
call_named(func, kw) ==
    IF DOMAIN kw # {func.params[i] : i \in 1..arity(func)} THEN Raised("TypeError")
    ELSE Returned(body_upto(func, [i \in 1..arity(func) |-> kw[func.params[i]].q],
                            arity(func)))

\* bool(v): an array of more than one element has no truth value
truth(v) ==
    CASE v.t = "None"    -> Returned(FALSE)
      [] v.t = "list"    -> Returned(Len(v.elems) > 0)
      [] v.t = "dict"    -> Returned(DOMAIN v.items # {})
      [] v.t = "ndarray" ->
            IF Len(v.elems) > 1
            THEN Raised("ValueError: the truth value of an array is ambiguous")
            ELSE Returned(Len(v.elems) = 1 /\ ~IsZero(v.elems[1]))

\* np.ones(n)
ones(n) == NDArray([i \in 1..n |-> One])

\* np.array(v, dtype=float) of a list or an array: a new array of floats
array(v) ==
    NDArray([i \in 1..Len(v.elems) |->
                IF v.t = "list" THEN v.elems[i].q ELSE v.elems[i]])

\* tuple(x) of an array
tuple(v) == Tuple(v.elems)

\* FunctionVector.e_i
e_i(i, n) == [j \in 1..n |-> IF j = i THEN One ELSE Zero]

\* a bump that raises every key of the dict, not only k
bump_all(dct, k, h) == [kk \in DOMAIN dct |-> FloatV(Add(dct[kk].q, h))]

\* FunctionVector.bump
bump(dct, k, h) == [kk \in DOMAIN dct |-> IF kk = k THEN FloatV(Add(dct[kk].q, h)) ELSE dct[kk]]

RECURSIVE dot_upto(_, _, _)
dot_upto(u, v, k) ==
    IF k = 0 THEN Zero ELSE Add(dot_upto(u, v, k - 1), Mul(u[k], v[k]))

\* np.dot(u, v)
dot(u, v) == dot_upto(u, v, Len(u))

\* sum(vv**2 for vv in dct.values())
RECURSIVE sum_squares(_, _)
sum_squares(dct, keys) ==
    IF keys = {} THEN Zero
    ELSE LET k == CHOOSE kk \in keys : TRUE
         IN  Add(sum_squares(dct, keys \ {k}), Mul(dct[k].q, dct[k].q))

\* the numbers held by a list, an array, a tuple or a dict
values(v) ==
    CASE v.t = "list" -> [i \in 1..Len(v.elems) |-> v.elems[i].q]
      [] v.t = "dict" -> [k \in DOMAIN v.items |-> v.items[k].q]
      [] v.t \in {"ndarray", "tuple"} -> v.elems

\* In minimize, heap[i] is the i-th container object created, with the names
\* that refer to it: the caller's variable, the locals x0 and x, and the
\* entries of the list path.
Object(val, names) == [val |-> val, names |-> names]

Name(n, k) == [n |-> n, k |-> k]
Caller == Name("caller", 0)
LocalX0 == Name("x0", 0)
LocalX == Name("x", 0)
PathEntry(k) == Name("path", k)

\* the object a name refers to
deref(h, name) == h[CHOOSE i \in DOMAIN h : name \in h[i].names].val

\* name = <a new object holding val>
assign_new(h, name, val) ==
    Append([i \in DOMAIN h |-> [h[i] EXCEPT !.names = @ \ {name}]], Object(val, {name}))

\* name = other: both names refer to the same object
assign_alias(h, name, other) ==
    [i \in DOMAIN h |->
        [h[i] EXCEPT !.names = IF other \in @ THEN @ \cup {name} ELSE @ \ {name}]]

\* an update in place of the object name refers to, seen through every name
\* of that object
store(h, name, val) ==
    [i \in DOMAIN h |-> IF name \in h[i].names THEN [h[i] EXCEPT !.val = val] ELSE h[i]]

\* the caller's object alone, as it is; every local name is gone
caller_only(h) ==
    LET kept == SelectSeq(h, LAMBDA o : Caller \in o.names)
    IN  [i \in DOMAIN kept |-> Object(kept[i].val, {Caller})]

\* dst = np.asarray(src, dtype=float): an array of floats is returned itself
np_asarray(h, dst, src) ==
    IF deref(h, src).t = "ndarray" THEN assign_alias(h, dst, src)
    ELSE assign_new(h, dst, array(deref(h, src)))

\* line 632: x = np.array(x0, dtype=float), always a new array
np_array(h, dst, src) == assign_new(h, dst, array(deref(h, src)))

\* line 657: x = {**x0}, a new dict
dict_copy(h, dst, src) == assign_new(h, dst, Dict(deref(h, src).items))

\* the values of the entries of the list path, of length len
path_of(h, len) == [k \in 1..len |-> deref(h, PathEntry(k - 1))]

MinimizeFuncs ==
    {Func(<<"a">>, <<One>>), Func(<<"a">>, <<Q(3, 1)>>),
     Func(<<"a", "b">>, <<One, Two>>)}

MinimizeStarts ==
    {NoneV,
     List(<< >>), List(<<IntV(0)>>), List(<<IntV(2), FloatV(One)>>),
     NDArray(<<Zero>>), NDArray(<<Two>>), NDArray(<<Two, One>>),
     Dict(Empty), Dict([a |-> IntV(0)]), Dict([a |-> FloatV(Zero), b |-> IntV(0)]),
     Dict([z |-> IntV(1)])}

MinimizeRates == {NoneV, IntV(0), FloatV(Q(1, 2))}
MinimizeIterations == {NoneV, IntV(0), IntV(1), IntV(2)}
MinimizeTolerances == {NoneV, IntV(0), IntV(2)}
MinimizeSteps == {NoneV, IntV(0)}

InitMinimize ==
    /\ pc = "minimize"
    /\ last = Op("none", 0, Empty, Returned(NoneV), 0)
    /\ args \in {[fn |-> "minimize", func |-> fu, x0 |-> s, learning_rate |-> lr,
                  iterations |-> it, tolerance |-> tol, deriv_h |-> dh,
                  return_path |-> rp] :
                    fu \in MinimizeFuncs, s \in MinimizeStarts, lr \in MinimizeRates,
                    it \in MinimizeIterations, tol \in MinimizeTolerances,
                    dh \in MinimizeSteps, rp \in BOOLEAN}
    /\ heap = IF IsNone(args.x0) THEN << >> ELSE <<Object(args.x0, {Caller})>>
    /\ NoLocals

\* invocations of func so far: positionally, by name, and the probes among them
Calls(positional, named, probes) ==
    [positional |-> positional, named |-> named, probes |-> probes]

\* the call ends before the loop with the exception e
MinimizeRaise(e, x0_, probes, h) ==
    /\ result' = e
    /\ x0' = x0_
    /\ heap' = h
    /\ calls' = Calls(0, probes, probes)
    /\ pc' = "done"
    /\ UNCHANGED <<learning_rate, iterations, tolerance, deriv_h, x, path, dfdx,
                   norm2_dfdx, iteration>>

\* a path that starts without the initial state
empty_path(x_) == << >>

\* lines 634 and 658: path = [tuple(x)] / path = [{**x}]
initial_path(x_) == <<IF x_.t = "dict" THEN Dict(x_.items) ELSE tuple(x_)>>

\* lines 598-617 up to the loop, with lines 632-634 / 657-658
MinimizeCall ==
    /\ pc = "minimize"
    /\ LET n == arity(args.func)
           tr == truth(args.x0)
           h1 == IF IsNone(args.x0) THEN assign_new(heap, LocalX0, ones(n))
                 ELSE IF tr.ok /\ tr.val THEN assign_alias(heap, LocalX0, Caller)
                 ELSE assign_new(heap, LocalX0, ones(n))
           x0_ == deref(h1, LocalX0)
           probe == call_named(args.func, x0_.items)
           h2 == IF x0_.t = "dict" THEN dict_copy(h1, LocalX, LocalX0)
                 ELSE np_array(h1, LocalX, LocalX0)
           first == initial_path(deref(h2, LocalX))
           h3 == IF Len(first) = 0 THEN h2 ELSE assign_new(h2, PathEntry(0), first[1])
       IN  IF ~tr.ok THEN MinimizeRaise(tr, args.x0, 0, heap)
           ELSE IF x0_.t # "dict" /\ Len(x0_.elems) # n
           THEN MinimizeRaise(Raised("AssertionError"), x0_, 0, h1)
           ELSE IF x0_.t = "dict" /\ ~probe.ok
           THEN MinimizeRaise(probe, x0_, 1, h1)
           ELSE /\ x0' = x0_
                /\ calls' = IF x0_.t = "dict" THEN Calls(0, 1, 1) ELSE Calls(0, 0, 0)
                /\ learning_rate' = IF Truthy(args.learning_rate)
                                    THEN args.learning_rate.q ELSE MM_LEARNING_RATE
                /\ tolerance' = IF Truthy(args.tolerance)
                                THEN args.tolerance.q ELSE MM_TOLERANCE
                /\ deriv_h' = IF Truthy(args.deriv_h) THEN args.deriv_h.q ELSE MM_DERIV_H
                /\ iterations' = IF Truthy(args.iterations)
                                 THEN args.iterations.q.n ELSE MM_ITERATIONS
                /\ heap' = h3
                /\ x' = deref(h3, LocalX)
                /\ path' = path_of(h3, Len(first))
                /\ iteration' = 0
                /\ pc' = "mm_loop"
                /\ UNCHANGED <<dfdx, norm2_dfdx, result>>
    /\ UNCHANGED <<args, prev, last>>

\* tol_squared = tolerance**2
tol_squared == Mul(tolerance, tolerance)

\* lines 636-647: one iteration of _minimize_lst
MinimizeLstIter ==
    /\ pc = "mm_loop"
    /\ x.t = "ndarray"
    /\ iteration < iterations
    /\ LET n == Len(x.elems)
       IN  \E f0 \in {call_positional(args.func, x.elems).val} :
           \E g \in {[i \in 1..n |->
                        Div(Sub(call_positional(args.func,
                                    [j \in 1..n |-> Add(x.elems[j],
                                                        Mul(deriv_h, e_i(i, n)[j]))]).val,
                                f0),
                            deriv_h)]} :
           \E x1 \in {[i \in 1..n |-> Sub(x.elems[i], Mul(learning_rate, g[i]))]} :
           \E norm2 \in {dot(g, g)} :
           \E h1 \in {store(heap, LocalX, NDArray(x1))} :
           \E h2 \in {assign_new(h1, PathEntry(Len(path)), tuple(deref(h1, LocalX)))} :
              /\ dfdx' = NDArray(g)
              /\ heap' = h2
              /\ x' = deref(h2, LocalX)
              /\ path' = path_of(h2, Len(path) + 1)
              /\ norm2_dfdx' = norm2
              /\ calls' = [calls EXCEPT !.positional = @ + n + 1]
              /\ iteration' = iteration + 1
              /\ pc' = IF Lt(norm2, tol_squared) \/ iteration + 1 = iterations
                       THEN "mm_return" ELSE "mm_loop"
    /\ UNCHANGED <<args, x0, learning_rate, iterations, tolerance, deriv_h, result,
                   prev, last>>

\* lines 660-671: one iteration of _minimize_dct
MinimizeDctIter ==
    /\ pc = "mm_loop"
    /\ x.t = "dict"
    /\ iteration < iterations
    /\ LET keys == DOMAIN x.items
       IN  \E f0 \in {call_named(args.func, x.items).val} :
           \E g \in {[k \in keys |->
                        FloatV(Div(Sub(call_named(args.func,
                                           bump(x.items, k, deriv_h)).val, f0),
                                   deriv_h))]} :
           \E x1 \in {[k \in keys |->
                        FloatV(Sub(x.items[k].q, Mul(learning_rate, g[k].q)))]} :
           \E norm2 \in {sum_squares(g, keys)} :
           \E h1 \in {assign_new(heap, LocalX, Dict(x1))} :
           \E h2 \in {assign_new(h1, PathEntry(Len(path)), Dict(deref(h1, LocalX).items))} :
              /\ dfdx' = Dict(g)
              /\ heap' = h2
              /\ x' = deref(h2, LocalX)
              /\ path' = path_of(h2, Len(path) + 1)
              /\ norm2_dfdx' = norm2
              /\ calls' = [calls EXCEPT !.named = @ + Cardinality(keys) + 1]
              /\ iteration' = iteration + 1
              /\ pc' = IF Lt(norm2, tol_squared) \/ iteration + 1 = iterations
                       THEN "mm_return" ELSE "mm_loop"
    /\ UNCHANGED <<args, x0, learning_rate, iterations, tolerance, deriv_h, result,
                   prev, last>>

\* a minimize that returns the last state without testing the gradient
minimize_unchecked(return_path, path_, dfdx_, norm2, tolsq) ==
    IF return_path THEN Returned([path |-> path_, dfdx |-> dfdx_])
    ELSE Returned(path_[Len(path_)])

\* lines 619-623
minimize_result(return_path, path_, dfdx_, norm2, tolsq) ==
    IF return_path THEN Returned([path |-> path_, dfdx |-> dfdx_])
    ELSE IF Lt(norm2, tolsq) THEN Returned(path_[Len(path_)])
    ELSE Raised("ValueError: gradient descent failed to converge")

MinimizeReturn ==
    /\ pc = "mm_return"
    /\ result' = minimize_result(args.return_path, path, dfdx, norm2_dfdx, tol_squared)
    /\ pc' = "done"
    /\ UNCHANGED <<args, x0, learning_rate, iterations, tolerance, deriv_h, x, path,
                   dfdx, norm2_dfdx, iteration, calls, prev, heap, last>>

\* the caller repeats the call with the same arguments but return_path
\* switched, keeping the outcome of the first call
MinimizeAgain ==
    /\ pc = "done"
    /\ args.fn = "minimize"
    /\ prev = Idle
    /\ prev' = result
    /\ args' = [args EXCEPT !.return_path = ~@]
    /\ pc' = "minimize"
    /\ x0' = Idle /\ learning_rate' = Idle /\ iterations' = Idle
    /\ tolerance' = Idle /\ deriv_h' = Idle /\ x' = Idle /\ path' = Idle
    /\ dfdx' = Idle /\ norm2_dfdx' = Idle /\ iteration' = Idle /\ calls' = Idle
    /\ result' = Idle
    /\ heap' = caller_only(heap)
    /\ UNCHANGED last

NextMinimize ==
    \/ MinimizeCall
    \/ MinimizeLstIter
    \/ MinimizeDctIter
    \/ MinimizeReturn
    \/ MinimizeAgain

SpecMinimize == InitMinimize /\ [][NextMinimize]_vars


(***************************************************************************)
(* Properties of minimize.                                                 *)
(***************************************************************************)
InMinimize == args.fn = "minimize" /\ pc # "minimize"

MinimizeDone == args.fn = "minimize" /\ pc = "done"

\* the loop ran all its iterations and the last gradient is not below tolerance
Exhausted ==
    /\ x # Idle
    /\ iteration = iterations
    /\ ~Lt(norm2_dfdx, tol_squared)

ConvergenceError == Raised("ValueError: gradient descent failed to converge")

\* C1 (as claimed): every call of minimize, with or without return_path, in
\* which the iteration budget is exhausted and the squared norm of the last
\* gradient is not below tolerance^2 ends in the convergence error and
\* returns no value.
C1_ExhaustedAlwaysRaises ==
    (MinimizeDone /\ Exhausted) => result = ConvergenceError

\* C1 (amended): a call of minimize without return_path in which the budget
\* is exhausted and the squared norm of the last gradient is not below
\* tolerance^2 ends in the convergence error and returns no value; with
\* return_path the same call returns (path, last gradient) and raises nothing.
C1_ExhaustedRaisesUnlessReturnPath ==
    (MinimizeDone /\ Exhausted) =>
        IF args.return_path
        THEN result = Returned([path |-> path, dfdx |-> dfdx])
        ELSE result = ConvergenceError

\* a dict-keyed call without return_path used up its two iterations above
\* tolerance and raised
C1_Witness ==
    /\ MinimizeDone /\ Exhausted
    /\ ~args.return_path
    /\ x.t = "dict"
    /\ iteration = 2
    /\ result = ConvergenceError

\* C7 (as claimed): when x0 is a mapping, func is invoked only with named
\* arguments and the state, and the value returned, is a mapping with exactly
\* the keys of x0; when x0 is not a mapping, func is invoked positionally and
\* the state is an array of length n, the parameter count of func; when x0 is
\* omitted it is the all-ones array of length n.
C7_CallingConventionByShape ==
    InMinimize =>
        /\ args.x0.t = "dict" =>
              /\ calls.positional = 0
              /\ x # Idle => (x.t = "dict" /\ DOMAIN x.items = DOMAIN args.x0.items)
              /\ (pc = "done" /\ result.ok /\ ~args.return_path) =>
                    (result.val.t = "dict"
                        /\ DOMAIN result.val.items = DOMAIN args.x0.items)
        /\ args.x0.t # "dict" =>
              /\ calls.named = 0
              /\ x # Idle => (x.t = "ndarray" /\ Len(x.elems) = arity(args.func))
        /\ IsNone(args.x0) => x0 = ones(arity(args.func))

C9_FailsBeforeLoop ==
    InMinimize =>
        /\ (args.x0.t \in {"list", "ndarray"}
               /\ Len(args.x0.elems) # arity(args.func)) =>
              /\ pc = "done" /\ ~result.ok /\ x = Idle
              /\ calls.positional + calls.named = 0
        /\ args.x0.t = "dict" =>
              /\ calls.probes = 1
              /\ ~call_named(args.func, args.x0.items).ok =>
                    /\ pc = "done" /\ x = Idle
                    /\ result = call_named(args.func, args.x0.items)
                    /\ calls.named = 1

(***************************************************************************)
(* FunctionVector: pointwise evaluation of a vector at a point.            *)
(***************************************************************************)
\* FunctionVector.__call__
vec_call(self, x_) == vec_f(self, x_)

\* FunctionVector.pp
vec_pp(self, x_) == weighted_sum(self.vec, "pp", x_)

\* the points at which evaluating meth at x evaluates the components' f
eval_points(F, meth, x_) ==
    IF meth = "f" THEN {x_}
    ELSE IF meth = "pp" THEN p_points(F, x_, NoneV) \cup {x_}
    ELSE p_points(F, x_, NoneV)

\* whether every component evaluates; otherwise its ZeroDivisionError propagates
vec_dom(self, meth, x_) ==
    \A i \in 1..Len(self.vec) :
        \A y \in eval_points(self.vec[i].fn, meth, x_) : Dom(self.vec[i].fn, y)

Hyperbola(k_, x0_, y0_) ==
    Obj("HyperbolaFunction", [k |-> FloatV(k_), x0 |-> FloatV(x0_), y0 |-> FloatV(y0_)])

EvalKernels == {Kernel(Zero, One, "flat"), Kernel(Zero, Two, "triangle")}

EvalVectors ==
    LET F1 == Quadratic(One, Zero, Zero)
        F2 == Quadratic(Zero, One, Q(-5, 1))
        F3 == Hyperbola(Two, One, Zero)
    IN  {FunctionVector(v, k) :
            v \in {<< >>, <<Item(F1, Q(3, 1))>>, <<Item(F2, Q(-1, 2))>>,
                   <<Item(F3, Two)>>, <<Item(F1, Q(1, 2)), Item(F2, Q(-1, 1))>>,
                   <<Item(F2, Q(3, 1)), Item(F3, One), Item(F1, Two)>>,
                   <<Item(Obj("CubicFunction", [a |-> FloatV(One)]), Two)>>},
            k \in EvalKernels}

EvalXs == {Zero, One, Q(-1, 1), Q(3, 2), Two, Q(5, 2)}

InitEval ==
    /\ pc = "eval"
    /\ heap = << >>
    /\ last = Op("none", 0, Empty, Returned(NoneV), 0)
    /\ args = Idle
    /\ NoLocals

\* the outcome of an evaluation: the value, or the error of a component
Outcome(defined, val) == IF defined THEN Returned(val) ELSE Raised("ZeroDivisionError")

\* self.f(x)
VecF ==
    /\ pc = "eval"
    /\ \E v \in EvalVectors : \E xv \in EvalXs :
          /\ args' = [fn |-> "f", self |-> v, x |-> xv]
          /\ result' = Outcome(vec_dom(v, "f", xv), vec_f(v, xv))
    /\ pc' = "evaluated"
    /\ UNCHANGED <<heap, last, x0, learning_rate, iterations, tolerance,
                   deriv_h, x, path, dfdx, norm2_dfdx, iteration, calls, prev>>

\* self(x)
VecCall ==
    /\ pc = "eval"
    /\ \E v \in EvalVectors : \E xv \in EvalXs :
          /\ args' = [fn |-> "__call__", self |-> v, x |-> xv]
          /\ result' = Outcome(vec_dom(v, "f", xv), vec_call(v, xv))
    /\ pc' = "evaluated"
    /\ UNCHANGED <<heap, last, x0, learning_rate, iterations, tolerance,
                   deriv_h, x, path, dfdx, norm2_dfdx, iteration, calls, prev>>

\* self.p(x)
VecP ==
    /\ pc = "eval"
    /\ \E v \in EvalVectors : \E xv \in EvalXs :
          /\ args' = [fn |-> "p", self |-> v, x |-> xv]
          /\ result' = Outcome(vec_dom(v, "p", xv), vec_p(v, xv))
    /\ pc' = "evaluated"
    /\ UNCHANGED <<heap, last, x0, learning_rate, iterations, tolerance,
                   deriv_h, x, path, dfdx, norm2_dfdx, iteration, calls, prev>>

\* self.df_dx(x)
VecDfDx ==
    /\ pc = "eval"
    /\ \E v \in EvalVectors : \E xv \in EvalXs :
          /\ args' = [fn |-> "df_dx", self |-> v, x |-> xv]
          /\ result' = Outcome(vec_dom(v, "p", xv), vec_df_dx(v, xv))
    /\ pc' = "evaluated"
    /\ UNCHANGED <<heap, last, x0, learning_rate, iterations, tolerance,
                   deriv_h, x, path, dfdx, norm2_dfdx, iteration, calls, prev>>

\* self.pp(x)
VecPP ==
    /\ pc = "eval"
    /\ \E v \in EvalVectors : \E xv \in EvalXs :
          /\ args' = [fn |-> "pp", self |-> v, x |-> xv]
          /\ result' = Outcome(vec_dom(v, "pp", xv), vec_pp(v, xv))
    /\ pc' = "evaluated"
    /\ UNCHANGED <<heap, last, x0, learning_rate, iterations, tolerance,
                   deriv_h, x, path, dfdx, norm2_dfdx, iteration, calls, prev>>

Cubic(a_) == Obj("CubicFunction", [a |-> FloatV(a_)])

AbsQuadratic(a_, b_, c_) ==
    Obj("AbsQuadraticFunction", [a |-> FloatV(a_), b |-> FloatV(b_), c |-> FloatV(c_)])

EvalFunctions ==
    {Quadratic(One, Q(-2, 1), Zero), Hyperbola(Two, One, Zero), Cubic(One),
     Cubic(Q(1, 2)), AbsQuadratic(One, Q(-2, 1), Zero)}

EvalPrecisions == {NoneV, IntV(0), IntV(2), FloatV(Q(1, 2))}

\* whether F.p(x, precision) / F.df_dx(x, precision) evaluates
p_dom(F, x_, precision) == \A y \in p_points(F, x_, precision) : Dom(F, y)

\* F.p(x, precision=precision)
FnP ==
    /\ pc = "eval"
    /\ \E F \in EvalFunctions : \E xv \in EvalXs : \E prec \in EvalPrecisions :
          /\ args' = [fn |-> "Function.p", self |-> F, x |-> xv, precision |-> prec]
          /\ result' = Outcome(p_dom(F, xv, prec), p(F, xv, prec))
    /\ pc' = "evaluated"
    /\ UNCHANGED <<heap, last, x0, learning_rate, iterations, tolerance,
                   deriv_h, x, path, dfdx, norm2_dfdx, iteration, calls, prev>>

\* F.df_dx(x, precision=precision)
FnDfDx ==
    /\ pc = "eval"
    /\ \E F \in EvalFunctions : \E xv \in EvalXs : \E prec \in EvalPrecisions :
          /\ args' = [fn |-> "Function.df_dx", self |-> F, x |-> xv, precision |-> prec]
          /\ result' = Outcome(p_dom(F, xv, prec), df_dx(F, xv, prec))
    /\ pc' = "evaluated"
    /\ UNCHANGED <<heap, last, x0, learning_rate, iterations, tolerance,
                   deriv_h, x, path, dfdx, norm2_dfdx, iteration, calls, prev>>

\* Kernel.in_domain and Kernel.__call__ (kernel.py): the domain is
\* [x_min, x_max]; a flat kernel weighs 1 on it, a triangle kernel rises
\* linearly from 0 at x_min to 1 at x_max; either weighs 0 outside
in_domain(k, x_) == ~Lt(x_, k.x_min) /\ ~Gt(x_, k.x_max)

kernel_call(k, x_) ==
    IF ~in_domain(k, x_) THEN Zero
    ELSE IF k.kind = "flat" THEN One
    ELSE Div(Sub(x_, k.x_min), Sub(k.x_max, k.x_min))

\* the lambda that restricted / apply_kernel build: it closes over func and self
Lambda(kind, self, func) == [t |-> "function", kind |-> kind, self |-> self, func |-> func]

\* lines 427 and 452: the lambda called at x; func is a Function, called as func(x)
call_lambda(g, x_) ==
    IF g.kind = "restricted"
    THEN IF in_domain(g.self.kernel, x_) THEN Outcome(Dom(g.func, x_), f(g.func, x_))
         ELSE Returned(Zero)
    ELSE Outcome(Dom(g.func, x_), Mul(f(g.func, x_), kernel_call(g.self.kernel, x_)))

\* how often that call evaluates func
lambda_calls(g, x_) ==
    IF g.kind = "restricted" /\ ~in_domain(g.self.kernel, x_) THEN 0 ELSE 1

\* a restricted that hands out the lambda for every falsy x
restricted_falsy(self, func, xa) ==
    IF ~Truthy(xa) THEN Returned(Lambda("restricted", self, func))
    ELSE call_lambda(Lambda("restricted", self, func), xa.q)

\* FunctionVector.restricted; xa is None or a number
restricted(self, func, xa) ==
    IF IsNone(xa) THEN Returned(Lambda("restricted", self, func))
    ELSE call_lambda(Lambda("restricted", self, func), xa.q)

\* FunctionVector.apply_kernel; xa is None or a number
apply_kernel(self, func, xa) ==
    IF IsNone(xa) THEN Returned(Lambda("apply_kernel", self, func))
    ELSE call_lambda(Lambda("apply_kernel", self, func), xa.q)

KernelFunctions ==
    {Quadratic(One, Q(-2, 1), Q(3, 1)), Hyperbola(Two, One, Zero),
     Hyperbola(One, Two, Zero)}

KernelArgs == {NoneV} \cup {FloatV(q) : q \in EvalXs}

\* self.restricted(func, x)
Restricted ==
    /\ pc = "eval"
    /\ \E k \in EvalKernels : \E F \in KernelFunctions : \E xa \in KernelArgs :
          LET self == FunctionVector(<< >>, k)
          IN  /\ args' = [fn |-> "restricted", self |-> self, func |-> F, x |-> xa]
              /\ result' = restricted(self, F, xa)
              /\ calls' = IF IsNone(xa) THEN 0
                          ELSE lambda_calls(Lambda("restricted", self, F), xa.q)
    /\ pc' = "evaluated"
    /\ UNCHANGED <<heap, last, x0, learning_rate, iterations, tolerance,
                   deriv_h, x, path, dfdx, norm2_dfdx, iteration, prev>>

\* self.apply_kernel(func, x)
ApplyKernel ==
    /\ pc = "eval"
    /\ \E k \in EvalKernels : \E F \in KernelFunctions : \E xa \in KernelArgs :
          LET self == FunctionVector(<< >>, k)
          IN  /\ args' = [fn |-> "apply_kernel", self |-> self, func |-> F, x |-> xa]
              /\ result' = apply_kernel(self, F, xa)
              /\ calls' = IF IsNone(xa) THEN 0 ELSE 1
    /\ pc' = "evaluated"
    /\ UNCHANGED <<heap, last, x0, learning_rate, iterations, tolerance,
                   deriv_h, x, path, dfdx, norm2_dfdx, iteration, prev>>

\* g(x) for the function g that restricted(func) / apply_kernel(func) returned
CallLambda ==
    /\ pc = "evaluated"
    /\ args.fn \in {"restricted", "apply_kernel"}
    /\ IsNone(args.x)
    /\ \E xv \in EvalXs :
          /\ args' = [fn |-> "lambda", g |-> result.val, x |-> FloatV(xv)]
          /\ result' = call_lambda(result.val, xv)
          /\ calls' = lambda_calls(result.val, xv)
    /\ prev' = result
    /\ UNCHANGED <<pc, heap, last, x0, learning_rate, iterations, tolerance,
                   deriv_h, x, path, dfdx, norm2_dfdx, iteration>>

EvalSteps == {NoneV, FloatV(Q(1, 2)), IntV(1)}
EvalEtas == {NoneV, FloatV(Q(1, 5)), IntV(0)}

\* whether a difference quotient of F at x_ with step hh evaluates: the step
\* is not zero and f is defined at the points used
deriv_dom(F, x_, hh, second) ==
    /\ ~IsZero(hh)
    /\ Dom(F, Add(x_, hh)) /\ Dom(F, Sub(x_, hh))
    /\ second => Dom(F, x_)

\* F.df_dx_abs(x, h=h, precision=precision)
FnDfDxAbs ==
    /\ pc = "eval"
    /\ \E F \in EvalFunctions : \E xv \in EvalXs : \E h \in EvalSteps :
       \E prec \in EvalPrecisions :
          /\ args' = [fn |-> "Function.df_dx_abs", self |-> F, x |-> xv, h |-> h,
                      precision |-> prec]
          /\ result' = Outcome(deriv_dom(F, xv, step_abs(h, prec), FALSE),
                               df_dx_abs(F, xv, h, prec))
    /\ pc' = "evaluated"
    /\ UNCHANGED <<heap, last, x0, learning_rate, iterations, tolerance,
                   deriv_h, x, path, dfdx, norm2_dfdx, iteration, calls, prev>>

\* F.d2f_dx2_abs(x, h=h, precision=precision)
FnD2fDx2Abs ==
    /\ pc = "eval"
    /\ \E F \in EvalFunctions : \E xv \in EvalXs : \E h \in EvalSteps :
       \E prec \in EvalPrecisions :
          /\ args' = [fn |-> "Function.d2f_dx2_abs", self |-> F, x |-> xv, h |-> h,
                      precision |-> prec]
          /\ result' = Outcome(deriv_dom(F, xv, step_abs(h, prec), TRUE),
                               d2f_dx2_abs(F, xv, h, prec))
    /\ pc' = "evaluated"
    /\ UNCHANGED <<heap, last, x0, learning_rate, iterations, tolerance,
                   deriv_h, x, path, dfdx, norm2_dfdx, iteration, calls, prev>>

\* F.df_dx_rel(x, eta=eta, precision=precision)
FnDfDxRel ==
    /\ pc = "eval"
    /\ \E F \in EvalFunctions : \E xv \in EvalXs : \E eta \in EvalEtas :
       \E prec \in EvalPrecisions :
          /\ args' = [fn |-> "Function.df_dx_rel", self |-> F, x |-> xv, eta |-> eta,
                      precision |-> prec]
          /\ result' = Outcome(deriv_dom(F, xv, step_abs(step_rel(xv, eta), prec), FALSE),
                               df_dx_rel(F, xv, eta, prec))
    /\ pc' = "evaluated"
    /\ UNCHANGED <<heap, last, x0, learning_rate, iterations, tolerance,
                   deriv_h, x, path, dfdx, norm2_dfdx, iteration, calls, prev>>

\* F.d2f_dx2_rel(x, eta=eta, precision=precision)
FnD2fDx2Rel ==
    /\ pc = "eval"
    /\ \E F \in EvalFunctions : \E xv \in EvalXs : \E eta \in EvalEtas :
       \E prec \in EvalPrecisions :
          /\ args' = [fn |-> "Function.d2f_dx2_rel", self |-> F, x |-> xv, eta |-> eta,
                      precision |-> prec]
          /\ result' = Outcome(deriv_dom(F, xv, step_abs(step_rel(xv, eta), prec), TRUE),
                               d2f_dx2_rel(F, xv, eta, prec))
    /\ pc' = "evaluated"
    /\ UNCHANGED <<heap, last, x0, learning_rate, iterations, tolerance,
                   deriv_h, x, path, dfdx, norm2_dfdx, iteration, calls, prev>>

\* F.pp(x, precision=precision)
FnPP ==
    /\ pc = "eval"
    /\ \E F \in EvalFunctions : \E xv \in EvalXs : \E prec \in EvalPrecisions :
          /\ args' = [fn |-> "Function.pp", self |-> F, x |-> xv, precision |-> prec]
          /\ result' = Outcome(\A y \in p_points(F, xv, prec) \cup {xv} : Dom(F, y),
                               pp(F, xv, prec))
    /\ pc' = "evaluated"
    /\ UNCHANGED <<heap, last, x0, learning_rate, iterations, tolerance,
                   deriv_h, x, path, dfdx, norm2_dfdx, iteration, calls, prev>>

NextEval ==
    \/ VecF \/ VecCall \/ VecP \/ VecDfDx \/ VecPP
    \/ FnP \/ FnDfDx
    \/ FnDfDxAbs \/ FnD2fDx2Abs \/ FnDfDxRel \/ FnD2fDx2Rel \/ FnPP
    \/ Restricted \/ ApplyKernel \/ CallLambda

SpecEval == InitEval /\ [][NextEval]_vars

Called(fns) == pc = "evaluated" /\ args.fn \in fns

\* the linear combination written out from the first entry to the last
RECURSIVE linear_combination(_, _, _)
linear_combination(vec, x_, i) ==
    IF i > Len(vec) THEN Zero
    ELSE Add(Mul(vec[i].coef, f(vec[i].fn, x_)), linear_combination(vec, x_, i + 1))

\* C11: f(x) of a FunctionVector is the sum over its entries of
\* coefficient * function(x), 0 for the empty vector and c * F(x) for the
\* vector {F: c}; calling the vector gives the same as f(x); an error of a
\* component's f is the outcome.
C11_LinearCombination ==
    Called({"f", "__call__"}) =>
        LET vec == args.self.vec
        IN  /\ result.ok = vec_dom(args.self, "f", args.x)
            /\ result.ok =>
                  /\ result.val = linear_combination(vec, args.x, 1)
                  /\ Len(vec) = 0 => result.val = Zero
                  /\ Len(vec) = 1 => result.val = Mul(vec[1].coef, f(vec[1].fn, args.x))
                  /\ result.val = vec_f(args.self, args.x)

\* the vector {x^2: 1/2, x - 5: -1} called at 3/2 gave 1/2 * 9/4 + 7/2
C11_Witness ==
    /\ Called({"__call__"})
    /\ Len(args.self.vec) = 2
    /\ args.x = Q(3, 2)
    /\ result = Returned(Q(37, 8))

\* the combination of the components' p written out from the first entry
RECURSIVE price_combination(_, _, _)
price_combination(vec, x_, i) ==
    IF i > Len(vec) THEN Zero
    ELSE Add(Mul(vec[i].coef, p(vec[i].fn, x_, NoneV)),
             price_combination(vec, x_, i + 1))

\* C12: for every Function variant, one that overrides p with its closed
\* form included, df_dx(x, precision) is -p(x, precision); for every
\* FunctionVector, df_dx(x) is -p(x), p(x) being the sum of coefficient *
\* p(x) over the components.
C12_DfDxIsMinusP ==
    /\ Called({"Function.df_dx"}) =>
          /\ result.ok = p_dom(args.self, args.x, args.precision)
          /\ result.ok =>
                /\ result.val = Neg(p(args.self, args.x, args.precision))
                /\ args.self.cls = "CubicFunction" =>
                      result.val = Mul(Q(3, 1), Mul(args.self.fields.a.q,
                                                    Mul(args.x, args.x)))
    /\ Called({"df_dx"}) =>
          /\ result.ok = vec_dom(args.self, "p", args.x)
          /\ result.ok =>
                /\ result.val = Neg(vec_p(args.self, args.x))
                /\ result.val = Neg(price_combination(args.self.vec, args.x, 1))

\* df_dx of x^3, whose p is overridden, at 3/2 with precision 2 gave 27/4
C12_Witness ==
    /\ Called({"Function.df_dx"})
    /\ args.self = Cubic(One)
    /\ args.x = Q(3, 2)
    /\ args.precision = IntV(2)
    /\ result = Returned(Q(27, 4))

\* C13: restricted(func, x) is func(x) for x inside the Kernel's domain and 0
\* outside, where func is not evaluated, for every supplied x, 0 included;
\* restricted(func) is a function g with g(x) = restricted(func, x);
\* apply_kernel(func, x) is func(x) * kernel(x), and apply_kernel(func) the
\* function of x with that value.
C13_RestrictedAndApplyKernel ==
    /\ (Called({"restricted", "apply_kernel"}) /\ IsNone(args.x)) =>
          /\ result.ok /\ result.val.t = "function"
          /\ calls = 0
    /\ (Called({"restricted"}) /\ ~IsNone(args.x)) =>
          IF in_domain(args.self.kernel, args.x.q)
          THEN /\ result = Outcome(Dom(args.func, args.x.q), f(args.func, args.x.q))
               /\ calls = 1
          ELSE /\ result = Returned(Zero)
               /\ calls = 0
    /\ (Called({"apply_kernel"}) /\ ~IsNone(args.x)) =>
          result = Outcome(Dom(args.func, args.x.q),
                           Mul(f(args.func, args.x.q),
                               kernel_call(args.self.kernel, args.x.q)))
    /\ Called({"lambda"}) =>
          result = IF args.g.kind = "restricted"
                   THEN restricted(args.g.self, args.g.func, args.x)
                   ELSE apply_kernel(args.g.self, args.g.func, args.x)

\* restricted(func, 0) on the domain [0, 1] gave func(0) = 3
C13_Witness ==
    /\ Called({"restricted"})
    /\ args.x = FloatV(Zero)
    /\ args.self.kernel = Kernel(Zero, One, "flat")
    /\ result = Returned(Q(3, 1))
    /\ calls = 1

(***************************************************************************)
(* The three iterative routines together, and every routine at once.       *)
(***************************************************************************)
InitOptimize == InitGoalseek \/ InitMinimize1 \/ InitMinimize

NextOptimize == NextGoalseek \/ NextMinimize1 \/ NextMinimize

SpecOptimize == InitOptimize /\ [][NextOptimize]_vars

Init == InitFunction \/ InitVector \/ InitEval \/ InitOptimize

Next == NextFunction \/ NextVector \/ NextEval \/ NextOptimize

Spec == Init /\ [][Next]_vars

\* the ceiling the caller asked for: GS_ITERATIONS for goalseek, the
\* iterations passed to minimize1 / minimize, MM_ITERATIONS when none is passed
Ceiling ==
    IF args.fn = "goalseek" THEN GS_ITERATIONS
    ELSE IF IsNone(args.iterations) THEN MM_ITERATIONS
    ELSE args.iterations.q.n

\* C14 (as claimed): a call of goalseek, minimize1 or minimize executes at
\* most its ceiling of loop iterations before it returns or raises:
\* GS_ITERATIONS for goalseek, the supplied iterations (MM_ITERATIONS when not
\* supplied) for minimize1 and minimize.
C14_AtMostCeilingIterations ==
    x # Idle => iteration <= Ceiling

(***************************************************************************)
(* The descent step of minimize, written on the coordinates of func.       *)
(***************************************************************************)
\* a loop state, a path entry or a gradient as the numbers of the parameters
\* of func, in the order func declares them
coords(func, v) ==
    IF v.t = "dict" THEN [i \in 1..arity(func) |-> v.items[func.params[i]].q]
    ELSE v.elems

\* the point pt with only coordinate k raised by h
raised(pt, k, h) == [j \in 1..Len(pt) |-> IF j = k THEN Add(pt[j], h) ELSE pt[j]]

\* (func(pt with coordinate k raised by h) - func(pt)) / h
forward_difference(func, pt, k, h) ==
    Div(Sub(body_upto(func, raised(pt, k, h), Len(pt)), body_upto(func, pt, Len(pt))), h)

gradient(func, pt, h) == [k \in 1..Len(pt) |-> forward_difference(func, pt, k, h)]

\* every coordinate moved against the gradient taken at pt
descent(func, pt, lr, h) ==
    [k \in 1..Len(pt) |-> Sub(pt[k], Mul(lr, gradient(func, pt, h)[k]))]

\* C15: in minimize, with the list-keyed and with the dict-keyed loop alike,
\* every path entry after the first is the entry before it moved by
\* -learning_rate * gradient, all coordinates at once, where each partial
\* derivative is the forward difference with step deriv_h taken at that
\* earlier entry; the state is the last path entry; the gradient kept is the
\* one of the last iteration and norm2_dfdx its squared norm; and the loop
\* goes on exactly while that squared norm is not below tolerance^2 and
\* iterations remain.  Both loops obey the same recurrence on the
\* coordinates, hence produce the same sequence of states.
C15_ForwardDifferenceDescent ==
    (args.fn = "minimize" /\ x # Idle) =>
        /\ Len(path) = iteration + 1
        /\ \A k \in 1..iteration :
              coords(args.func, path[k + 1]) =
                  descent(args.func, coords(args.func, path[k]), learning_rate, deriv_h)
        /\ coords(args.func, x) = coords(args.func, path[iteration + 1])
        /\ \A k \in 1..(iteration - 1) :
              LET g == gradient(args.func, coords(args.func, path[k]), deriv_h)
              IN  ~Lt(dot(g, g), tol_squared)
        /\ iteration >= 1 =>
              /\ coords(args.func, dfdx) =
                    gradient(args.func, coords(args.func, path[iteration]), deriv_h)
              /\ norm2_dfdx = dot(coords(args.func, dfdx), coords(args.func, dfdx))
              /\ (pc = "mm_loop") <=>
                    (~Lt(norm2_dfdx, tol_squared) /\ iteration < iterations)

\* the dict-keyed loop made two iterations on a function of two parameters,
\* the first with a gradient that is not zero in either coordinate
C15_Witness ==
    /\ args.fn = "minimize" /\ x # Idle
    /\ x.t = "dict"
    /\ arity(args.func) = 2
    /\ iteration = 2
    /\ \A k \in 1..2 :
          ~IsZero(gradient(args.func, coords(args.func, path[1]), deriv_h)[k])

(***************************************************************************)
(* The step of goalseek.                                                   *)
(***************************************************************************)
\* the central difference of f at x_ with step h, with f written out as the
\* weighted sum of the vector
central_difference(self, x_, h) ==
    Div(Sub(linear_combination(self.vec, Add(x_, h), 1), linear_combination(self.vec, Sub(x_, h), 1)),
        Add(h, h))

C16_step ==
    (args.fn = "goalseek" /\ pc = "gs_loop") =>
        /\ deriv_h = (IF args.x0 = Zero THEN GS_H ELSE Mul(args.x0, GS_ETA))
        /\ deriv_h' = deriv_h
        /\ LET m == central_difference(args.self, x, deriv_h)
           IN  IF m = Zero
               THEN /\ pc' = "done"
                    /\ result' = Raised("ZeroDivisionError")
               ELSE /\ x' = Add(x, Div(Sub(args.target, linear_combination(args.self.vec, x, 1)), m))
                    /\ iteration' = iteration + 1
                    /\ result' = result
                    /\ (pc' = "gs_loop") <=>
                          /\ ~Lt(Abs(Sub(linear_combination(args.self.vec, x', 1), args.target)),
                                 GS_TOLERANCE)
                          /\ iteration' < GS_ITERATIONS

\* C16: throughout the loop of goalseek the step h is the one fixed from the
\* start value, x0 * GS_ETA, or GS_H when x0 == 0; every iteration replaces x
\* by x + (target - f(x)) / m with m = (f(x+h) - f(x-h)) / (2h) taken at the
\* current x; the loop goes on exactly while the updated x is not within
\* GS_TOLERANCE of the target and iterations remain; and with m = 0 the call
\* ends at once in the division error of that step.
C16_GoalseekNewtonStep == [][C16_step]_vars

\* from the start 5/2, where h = 5/2 * GS_ETA differs from GS_H, two steps
\* on a function that is not linear have moved x
C16_Witness ==
    /\ args.fn = "goalseek" /\ x # Idle
    /\ args.x0 = Q(5, 2)
    /\ deriv_h = Mul(Q(5, 2), GS_ETA) /\ deriv_h # GS_H
    /\ iteration = 2
    /\ x # args.x0
    /\ \E i \in 1..Len(args.self.vec) : ~IsZero(args.self.vec[i].fn.fields.a.q)

\* a call on a function of slope zero ended in the division error
C16_ZeroSlope ==
    /\ GoalseekDone
    /\ result = Raised("ZeroDivisionError")
    /\ iteration = 0

(***************************************************************************)
(* The numeric derivatives of a Function.                                  *)
(***************************************************************************)
\* the outcome of the central difference quotient of f at x_ with step hh:
\* (f(x+hh) - f(x-hh)) / (2 hh), or (f(x+hh) + f(x-hh) - 2 f(x)) / hh^2 for
\* the second derivative
quotient(F, x_, hh, second) ==
    IF ~deriv_dom(F, x_, hh, second) THEN Raised("ZeroDivisionError")
    ELSE IF second
    THEN Returned(Div(Sub(Add(f(F, Add(x_, hh)), f(F, Sub(x_, hh))),
                          Add(f(F, x_), f(F, x_))),
                      Mul(hh, hh)))
    ELSE Returned(Div(Sub(f(F, Add(x_, hh)), f(F, Sub(x_, hh))), Add(hh, hh)))

negated(outcome) == IF outcome.ok THEN Returned(Neg(outcome.val)) ELSE outcome

\* the step of the relative versions before precision: x * eta, eta
\* defaulting to DERIV_ETA, and DERIV_H when x == 0
relative_step(x_, eta) ==
    IF x_ = Zero THEN DERIV_H
    ELSE Mul(x_, IF IsNone(eta) THEN DERIV_ETA ELSE eta.q)

absolute_step(h) == IF IsNone(h) THEN DERIV_H ELSE h.q

\* every derivative method returns the difference quotient whose step is the
\* base step scaled by scaled(h, precision)
DerivativesUse(scaled(_, _)) ==
    LET F == args.self
        second == args.fn \in {"Function.d2f_dx2_abs", "Function.d2f_dx2_rel", "Function.pp"}
    IN  /\ Called({"Function.df_dx_abs", "Function.d2f_dx2_abs"}) =>
              result = quotient(F, args.x, scaled(absolute_step(args.h), args.precision),
                                second)
        /\ Called({"Function.df_dx_rel", "Function.d2f_dx2_rel"}) =>
              result = quotient(F, args.x,
                                scaled(relative_step(args.x, args.eta), args.precision),
                                second)
        /\ (Called({"Function.p", "Function.pp"})
               /\ ~(args.fn = "Function.p" /\ F.cls = "CubicFunction")) =>
              result = negated(quotient(F, args.x,
                                        scaled(IF deriv_is_abs(F) THEN DERIV_H
                                               ELSE relative_step(args.x, NoneV),
                                               args.precision),
                                        second))

\* h * precision whenever a precision is passed
scaled_when_given(h, precision) == IF IsNone(precision) THEN h ELSE Mul(h, precision.q)

\* h * precision when a precision other than 0 is passed
scaled_when_nonzero(h, precision) == IF Truthy(precision) THEN Mul(h, precision.q) ELSE h

\* C17 (as claimed): df_dx_rel and d2f_dx2_rel are df_dx_abs and d2f_dx2_abs
\* with step h = x * eta (eta defaulting to DERIV_ETA) for x != 0, negative x
\* included, and with DERIV_H when x == 0; when precision is given the step
\* used is that h times precision; p and pp return the negated absolute-step
\* quotient when DERIV_IS_ABS is set and the negated relative-step quotient
\* otherwise.
C17_StepScaledByGivenPrecision == DerivativesUse(scaled_when_given)

\* the same statement with a precision of 0 counted as not given
C17_StepScaledByNonzeroPrecision == DerivativesUse(scaled_when_nonzero)

\* df_dx_rel at a negative x with an eta and a precision passed
C17_NegativeX ==
    /\ Called({"Function.df_dx_rel"})
    /\ args.x = Q(-1, 1) /\ args.eta = FloatV(Q(1, 5)) /\ args.precision = IntV(2)
    /\ result.ok

(***************************************************************************)
(* What minimize does to the objects it is given and to those it makes.    *)
(***************************************************************************)
\* the objects a name refers to: at most one
named(h, name) == {i \in DOMAIN h : name \in h[i].names}

\* the caller's x0 is as it was passed; the state of the loop is another
\* object than the caller's; every path entry is an object of its own
CopiesAndSnapshots ==
    /\ ~IsNone(args.x0) => deref(heap, Caller) = args.x0
    /\ x # Idle =>
          /\ named(heap, LocalX) \cap named(heap, Caller) = {}
          /\ \A k \in 0..(Len(path) - 1) :
                /\ Cardinality(named(heap, PathEntry(k))) = 1
                /\ \A i \in named(heap, PathEntry(k)) : heap[i].names = {PathEntry(k)}

\* a step inside a call leaves every path entry it finds as it is
EarlierEntriesKept ==
    (x # Idle /\ pc' # "minimize") =>
        /\ Len(path') >= Len(path)
        /\ \A k \in 1..Len(path) : path'[k] = path[k]

\* path[0] is the x0 that was passed
StartsAtPassedX0 ==
    (x # Idle /\ ~IsNone(args.x0)) => values(path[1]) = values(args.x0)

\* path[0] is the x0 that was passed, for an x0 that Python counts as true
StartsAtTruthyX0 ==
    (x # Idle /\ ~IsNone(args.x0) /\ truth(args.x0).val) =>
        values(path[1]) = values(args.x0)

C18_step ==
    args.fn = "minimize" =>
        /\ CopiesAndSnapshots /\ CopiesAndSnapshots'
        /\ EarlierEntriesKept
        /\ StartsAtPassedX0 /\ StartsAtPassedX0'

\* C18 (as claimed): minimize never modifies the caller's x0, sequence or
\* mapping: the loops work on a copy, every path entry is an independent
\* snapshot that no later iteration changes, and path[0] equals the x0 that
\* was passed, up to the end of the call.
C18_CallerX0Untouched == [][C18_step]_vars

\* the same without the last part for an x0 that Python counts as false
C18_CopiesAndSnapshots ==
    [][args.fn = "minimize" =>
          /\ CopiesAndSnapshots /\ CopiesAndSnapshots'
          /\ EarlierEntriesKept
          /\ StartsAtTruthyX0 /\ StartsAtTruthyX0']_vars

\* the array [0.] was passed as x0 and the path starts elsewhere
C18_FalsyStart ==
    /\ MinimizeDone /\ x # Idle
    /\ args.x0 = NDArray(<<Zero>>)
    /\ values(path[1]) # values(args.x0)

(***************************************************************************)
(* Arguments passed as 0: minimize, minimize1 and the numeric derivatives  *)
(* together.                                                               *)
(***************************************************************************)
InitDefaults == InitMinimize \/ InitMinimize1 \/ InitEval

NextDefaults == NextMinimize \/ NextMinimize1 \/ FnDfDxAbs \/ FnD2fDx2Abs

SpecDefaults == InitDefaults /\ [][NextDefaults]_vars

\* the value a call works with when v is passed for an argument of default d
\* and a 0 counts as not passed
unless_zero(v, d) == IF IsNone(v) THEN d ELSE IF v.q = Zero THEN d ELSE v.q

\* the same when only an omitted argument takes the default
unless_omitted(v, d) == IF IsNone(v) THEN d ELSE v.q

C19_MinimizeZero ==
    /\ x # Idle /\ args.fn = "minimize"
    /\ args.tolerance = IntV(0) /\ args.deriv_h = IntV(0)
    /\ args.learning_rate = IntV(0) /\ args.iterations = IntV(0)
    /\ iteration = MM_ITERATIONS

====
